---------------------------- MODULE Spec2Model ----------------------------
(* Framed transport dispatcher of ntex (ntex/src/framed/dispatcher.rs).    *)
(* The dispatcher is a future: every poll first drains the inline handler  *)
(* future and then runs the Processing / Stop / Shutdown loop.  One action *)
(* of this model is the top of a poll or one pass of that loop; between    *)
(* polls the detached handler calls, the timer and the connection act.     *)
EXTENDS Integers, Sequences, FiniteSets

VARIABLES
    pc,          \* "config" (builder), "idle" (between polls), "loop" (inside poll), "done"
    st,          \* DispatcherInner.st
    fut,         \* Dispatcher.fut: 0 = None, else index into calls
    inflight,    \* DispatcherShared.inflight
    sharedErr,   \* DispatcherShared.error
    innerErr,    \* DispatcherInner.error
    ka_timeout,  \* DispatcherInner.ka_timeout
    ka_updated,  \* DispatcherInner.ka_updated
    now,         \* Timer.now()
    ticks,       \* number of clock advances so far
    timerReg,    \* deadlines the timer holds for this connection
    registered,  \* Timer.register has been called for this connection
    kaFlag,      \* State.is_keepalive()
    dspStopped,  \* State.is_dsp_stopped()
    ioErr,       \* State holds an io error (take_io_error)
    lastReg,     \* waker registration made with State by the current or last poll
    woken,       \* dispatcher task has been woken since its last poll
    calls,       \* every Service::call made, in call order
    decoded,     \* frames returned by decode_item, in order
    written,     \* call indices in the order their outcome reached write_result
    shutdownIo,  \* number of State.shutdown_io() invocations
    sdFlags,     \* is_error flags passed to Service::poll_shutdown
    result,      \* output of the dispatcher future
    ret,         \* what the last finished poll returned
    act,         \* label of the last step taken
    rdy,         \* outcome of Service::poll_ready in the last step ("-" if not
                 \* polled, "ignored" where the code drops it)
    stopCause    \* which path set st to Stop

vars == <<pc, st, fut, inflight, sharedErr, innerErr, ka_timeout, ka_updated, now,
          ticks, timerReg, registered, kaFlag, dspStopped, ioErr, lastReg,
          woken, calls, decoded, written, shutdownIo, sdFlags, result, ret, act,
          rdy, stopCause>>

-----------------------------------------------------------------------------
(* Bounds *)
MaxFrames == 2
MaxTicks == 2

(* Program constant: default keep-alive timeout, seconds *)
DefaultKa == 30

KaChoices == {0, 1}
TickSteps == {DefaultKa}

-----------------------------------------------------------------------------
(* Values *)
NoErr == [k |-> "None", e |-> 0]
KeepAliveErr == [k |-> "KeepAlive", e |-> 0]
EncoderErr(i) == [k |-> "Encoder", e |-> i]
ServiceErr(i) == [k |-> "Service", e |-> i]
\* the error returned by Service::poll_ready; call errors carry the call index
ReadinessErr == ServiceErr(0)

NoResult == [k |-> "none", e |-> 0]
OkResult == [k |-> "Ok", e |-> 0]
ErrResult(err) == [k |-> "Err", e |-> err.e]

Item(f) == [t |-> "Item", f |-> f]
ErrItem(t) == [t |-> t, f |-> 0]

\* what a handler future resolves to, as write_result sees it: a response (or
\* none) that is written, a response whose encoding fails, a handler error
Outcomes == {"ok", "encfail", "err"}

-----------------------------------------------------------------------------
(* Collaborators: Timer and State.write_result *)

\* Timer::register(expire, previous, state): the connection moves from the
\* previous deadline's bucket to the new one
timer_register(reg, expire, previous) == (reg \ {previous}) \cup {expire}

\* Timer::unregister(expire, state)
timer_unregister(reg, expire) == reg \ {expire}

\* State::write_result(item, codec): Err(Left(e)) for a handler error,
\* Err(Right(e)) when encoding the response fails, Ok(()) otherwise
write_result(o, i) ==
    CASE o = "err" -> ServiceErr(i)
      [] o = "encfail" -> EncoderErr(i)
      [] OTHER -> NoErr

-----------------------------------------------------------------------------
(* Keep-alive bookkeeping *)

\* Dispatcher::from_state: the deadline registered at construction
from_state_reg(updated) == timer_register({}, updated + DefaultKa, updated + DefaultKa)

\* mutant of keepalive_timeout_reg: disabling leaves the old deadline in place
keepalive_timeout_reg_keep(reg, upd, ka, timeout) ==
    IF timeout = 0
    THEN reg
    ELSE timer_register(reg, upd + timeout, upd + ka)

\* Dispatcher::keepalive_timeout: the timer's registrations after the call
keepalive_timeout_reg(reg, upd, ka, timeout) ==
    LET prev == upd + ka IN
    IF timeout = 0
    THEN timer_unregister(reg, prev)
    ELSE timer_register(reg, upd + timeout, prev)

\* DispatcherInner::ka_enabled
ka_enabled(ka) == ka > 0

\* mutant of check_keepalive: the keep-alive flag is never looked at
check_keepalive_skip(se, flag) == se

\* DispatcherInner::check_keepalive: the shared error cell after the check
check_keepalive(se, flag) ==
    IF flag
    THEN IF se # NoErr THEN se ELSE KeepAliveErr
    ELSE se

\* mutant of update_keepalive: the new deadline is registered without naming
\* the deadline it replaces
update_keepalive_leak(reg, upd, ka, updated) ==
    IF ka_enabled(ka) /\ updated # upd
    THEN [reg |-> timer_register(reg, updated + ka, updated + ka), upd |-> updated]
    ELSE [reg |-> reg, upd |-> upd]

\* DispatcherInner::update_keepalive: registrations and ka_updated after it
update_keepalive(reg, upd, ka, updated) ==
    IF ka_enabled(ka) /\ updated # upd
    THEN [reg |-> timer_register(reg, updated + ka, upd + ka), upd |-> updated]
    ELSE [reg |-> reg, upd |-> upd]

\* mutant of unregister_keepalive: the deadline is computed without the timeout
unregister_keepalive_stale(reg, upd, ka) ==
    IF ka_enabled(ka) THEN timer_unregister(reg, upd) ELSE reg

\* DispatcherInner::unregister_keepalive
unregister_keepalive(reg, upd, ka) ==
    IF ka_enabled(ka) THEN timer_unregister(reg, upd + ka) ELSE reg

-----------------------------------------------------------------------------
(* Handler calls and their results *)

NewCall(item, mode) ==
    [item |-> item, mode |-> mode, status |-> "pending", out |-> "-", doneIn |-> "-"]

\* mutant of call_service: the item of a detached call never reaches the handler
call_service_lost(cs, item, mode) ==
    IF mode = "detached" THEN cs ELSE Append(cs, NewCall(item, mode))

\* Service::call(item): the handler receives the item
call_service(cs, item, mode) == Append(cs, NewCall(item, mode))

\* a call's future resolved with outcome o while the dispatcher was in state s
Completed(cs, i, o, s) ==
    [cs EXCEPT ![i].status = "done", ![i].out = o, ![i].doneIn = s]

\* the shared error cell after write_result returned wr:
\* `self.error.set(Some(err.into()))` on Err, untouched on Ok
store_error(se, wr) == IF wr # NoErr THEN wr ELSE se

\* mutant of inflight_drained: Stop never waits for calls in flight
inflight_drained_always(n) == TRUE

\* mutant of inflight_drained: off by one, Stop does not wait for the last call
inflight_drained_early(n) == n <= 1

\* the test the Stop state makes before moving to Shutdown
inflight_drained(n) == n = 0

\* mutant of shutdown_flag: the hook is never told about the error
shutdown_flag_never(ie) == FALSE

\* the is_error flag handed to Service::poll_shutdown
shutdown_flag(ie) == ie # NoErr

\* mutant of final_result: the stashed error is dropped from the result
final_result_ok(ie) == OkResult

\* the future's output once poll_shutdown is ready
final_result(ie) == IF ie # NoErr THEN ErrResult(ie) ELSE OkResult

\* mutant of stash_error: every kind of shared error is kept for the result
stash_error_any(se, ie) == se

\* poll_service keeps a Service error in DispatcherInner.error for the final
\* result; the other kinds become dispatch items
stash_error(se, ie) == IF se.k = "Service" THEN se ELSE ie

\* which dispatch item poll_service makes of a pending shared error
error_item(se) ==
    CASE se.k = "KeepAlive" -> ErrItem("KeepAliveTimeout")
      [] se.k = "Encoder" -> ErrItem("EncoderError")
      [] OTHER -> ErrItem("-")

ErrorItems == {"DecoderError", "EncoderError", "IoError", "KeepAliveTimeout"}

-----------------------------------------------------------------------------
(* Initial state: Dispatcher::from_state *)

Init ==
    /\ pc = "config"
    /\ st = "Processing"
    /\ fut = 0
    /\ inflight = 0
    /\ sharedErr = NoErr
    /\ innerErr = NoErr
    /\ ka_timeout = DefaultKa
    /\ ka_updated = 0
    /\ now = 0
    /\ ticks = 0
    /\ timerReg = from_state_reg(0)
    /\ registered = TRUE
    /\ kaFlag = FALSE
    /\ dspStopped = FALSE
    /\ ioErr = FALSE
    /\ lastReg = "none"
    /\ woken = TRUE
    /\ calls = <<>>
    /\ decoded = <<>>
    /\ written = <<>>
    /\ shutdownIo = 0
    /\ sdFlags = {}
    /\ result = NoResult
    /\ ret = "none"
    /\ act = "new"
    /\ rdy = "-"
    /\ stopCause = "none"

dispVars == <<st, fut, inflight, sharedErr, innerErr>>
kaVars == <<ka_timeout, ka_updated>>
timerVars == <<timerReg, registered>>
clockVars == <<now, ticks>>
connVars == <<kaFlag, dspStopped, ioErr, lastReg>>
callVars == <<calls, decoded, written>>
endVars == <<shutdownIo, sdFlags, result, stopCause>>

-----------------------------------------------------------------------------
(* Builder *)

\* Dispatcher::keepalive_timeout(timeout)
keepalive_timeout(timeout) ==
    /\ pc = "config"
    /\ timerReg' = keepalive_timeout_reg(timerReg, ka_updated, ka_timeout, timeout)
    /\ registered' = (registered \/ timeout # 0)
    /\ ka_timeout' = timeout
    /\ act' = "keepalive_timeout"
    /\ rdy' = "-"
    /\ UNCHANGED <<pc, dispVars, ka_updated, clockVars, connVars, woken, callVars,
                   endVars, ret>>

-----------------------------------------------------------------------------
(* Environment: clock, timer, connection, detached handler tasks.  The       *)
(* executor is single-threaded, so none of them runs inside a poll.          *)

Outside == pc \in {"config", "idle"}

Tick(d) ==
    /\ Outside
    /\ ticks < MaxTicks
    /\ now' = now + d
    /\ ticks' = ticks + 1
    /\ act' = "tick"
    /\ rdy' = "-"
    /\ UNCHANGED <<pc, dispVars, kaVars, timerVars, connVars, woken, callVars,
                   endVars, ret>>

\* a registered deadline elapsed: the timer raises the connection's keep-alive
\* flag and wakes the dispatcher
TimerFire ==
    /\ Outside
    /\ \E d \in timerReg :
          /\ d <= now
          /\ timerReg' = timerReg \ {d}
    /\ kaFlag' = TRUE
    /\ woken' = TRUE
    /\ act' = "timer_fire"
    /\ rdy' = "-"
    /\ UNCHANGED <<pc, dispVars, kaVars, registered, clockVars, dspStopped, ioErr,
                   lastReg, callVars, endVars, ret>>

\* the connection is told to stop the dispatcher, with or without an io error
ExternalStop(withErr) ==
    /\ Outside
    /\ ~dspStopped
    /\ dspStopped' = TRUE
    /\ ioErr' = withErr
    /\ woken' = TRUE
    /\ act' = "external_stop"
    /\ rdy' = "-"
    /\ UNCHANGED <<pc, dispVars, kaVars, timerVars, clockVars, kaFlag,
                   lastReg, callVars, endVars, ret>>

\* State::dsp_wake_task: wakes the task whose waker the dispatcher registered
dsp_wake_task(w, reg) == w \/ reg # "none"

\* mutant of handle_result_wake: a completion never wakes the dispatch loop
handle_result_wake_never(w, reg, wake) == w

\* the tail of handle_result: `if wake { state.dsp_wake_task() }`
handle_result_wake(w, reg, wake) == IF wake THEN dsp_wake_task(w, reg) ELSE w

\* DispatcherShared::handle_result(item, state, wake) for call i with outcome o
HandleResult(i, o) ==
    /\ inflight' = inflight - 1
    /\ sharedErr' = store_error(sharedErr, write_result(o, i))
    /\ written' = Append(written, i)
    /\ calls' = Completed(calls, i, o, st)

\* a detached handler call completes: handle_result(item, &st, true)
DetachedComplete(i, o) ==
    /\ pc = "idle"
    /\ i \in 1..Len(calls)
    /\ calls[i].mode = "detached"
    /\ calls[i].status = "pending"
    /\ HandleResult(i, o)
    /\ woken' = handle_result_wake(woken, lastReg, TRUE)
    /\ act' = "detached_complete"
    /\ rdy' = "-"
    /\ UNCHANGED <<pc, st, fut, innerErr, kaVars, timerVars, clockVars, connVars,
                   decoded, endVars, ret>>

-----------------------------------------------------------------------------
(* Dispatcher::poll *)

FirstPoll == {"pending"} \cup Outcomes

\* mutant of PollStart: the poll goes to the state machine without polling
\* the pending inline call
PollStart_nodrain ==
    /\ Outside
    /\ pc' = "loop"
    /\ ret' = "none"
    /\ lastReg' = "none"
    /\ rdy' = "-"
    /\ act' = "poll"
    /\ woken' = FALSE
    /\ UNCHANGED <<dispVars, kaVars, timerVars, clockVars, kaFlag, dspStopped,
                   ioErr, callVars, endVars>>

\* top of poll: "handle service response future"
PollStart ==
    /\ Outside
    /\ pc' = "loop"
    /\ ret' = "none"
    /\ lastReg' = "none"
    /\ rdy' = "-"
    /\ IF fut = 0
       THEN /\ act' = "poll"
            /\ woken' = FALSE
            /\ UNCHANGED <<fut, inflight, sharedErr, calls, written>>
       ELSE \E o \in FirstPoll :
               IF o = "pending"
               THEN /\ act' = "poll_inline_pending"
                    /\ woken' = FALSE
                    /\ UNCHANGED <<fut, inflight, sharedErr, calls, written>>
               ELSE /\ act' = "poll_inline_done"
                    /\ HandleResult(fut, o)
                    /\ woken' = handle_result_wake(FALSE, "none", FALSE)
                    /\ fut' = 0
    /\ UNCHANGED <<st, innerErr, kaVars, timerVars, clockVars, kaFlag, dspStopped,
                   ioErr, decoded, endVars>>

\* what Service::poll_ready can return: Ready(Ok), Pending, Ready(Err)
PollReady == {"Ok", "Pending", "Err"}

\* mutant of on_error_state: an error takes the dispatcher straight to Shutdown
on_error_state_skip == "Shutdown"

\* the state every error path of the Processing state sets:
\* `st.set(DispatcherState::Stop)`
on_error_state == "Stop"

\* mutant of service_not_ready: the waker is registered but the gate lets
\* the caller go on to decode
service_not_ready_open == [ps |-> "Ready", lreg |-> "service_not_ready"]

\* the Poll::Pending arm of poll_service: dsp_service_not_ready(waker),
\* PollService::Pending
service_not_ready == [ps |-> "Pending", lreg |-> "service_not_ready"]

\* mutant of gate_branch: the stop request is looked at before the shared error
gate_branch_stop_first(se, stopped) ==
    IF stopped THEN "stop"
    ELSE IF se # NoErr THEN "error"
    ELSE "ready"

\* the order in which the Ready(Ok) arm of poll_service looks at its
\* conditions: `if let Some(err) = shared.error.take()`, else
\* `if state.is_dsp_stopped()`, else Ready
gate_branch(se, stopped) ==
    IF se # NoErr THEN "error"
    ELSE IF stopped THEN "stop"
    ELSE "ready"

\* DispatcherInner::poll_service, for the outcome r of Service::poll_ready:
\* the PollService value and the fields it leaves behind
poll_service(r) ==
    IF r = "Ok"
    THEN LET se1 == check_keepalive(sharedErr, kaFlag)
             branch == gate_branch(se1, dspStopped)
         IN
         IF branch = "error"
         THEN [ps |-> IF se1.k = "Service" THEN "ServiceError" ELSE "Item",
               item |-> error_item(se1),
               st |-> on_error_state,
               se |-> NoErr,
               ie |-> stash_error(se1, innerErr),
               reg |-> unregister_keepalive(timerReg, ka_updated, ka_timeout),
               io |-> ioErr,
               lreg |-> lastReg,
               cause |-> CASE se1.k = "KeepAlive" -> "keepalive"
                           [] se1.k = "Encoder" -> "encoder"
                           [] OTHER -> "service"]
         ELSE IF branch = "stop"
         THEN [ps |-> IF ioErr THEN "Item" ELSE "ServiceError",
               item |-> ErrItem("IoError"),
               st |-> on_error_state,
               se |-> se1,
               ie |-> innerErr,
               reg |-> unregister_keepalive(timerReg, ka_updated, ka_timeout),
               io |-> FALSE,
               lreg |-> lastReg,
               cause |-> IF ioErr THEN "io" ELSE "stop"]
         ELSE [ps |-> "Ready",
               item |-> ErrItem("-"),
               st |-> st,
               se |-> se1,
               ie |-> innerErr,
               reg |-> timerReg,
               io |-> ioErr,
               lreg |-> lastReg,
               cause |-> stopCause]
    ELSE IF r = "Pending"
    THEN [ps |-> service_not_ready.ps,
          item |-> ErrItem("-"),
          st |-> st,
          se |-> sharedErr,
          ie |-> innerErr,
          reg |-> timerReg,
          io |-> ioErr,
          lreg |-> service_not_ready.lreg,
          cause |-> stopCause]
    ELSE [ps |-> "ServiceError",
          item |-> ErrItem("-"),
          st |-> on_error_state,
          se |-> sharedErr,
          ie |-> ReadinessErr,
          reg |-> unregister_keepalive(timerReg, ka_updated, ka_timeout),
          io |-> ioErr,
          lreg |-> lastReg,
          cause |-> "readiness"]

\* mutant of dispatch_mode: every call is spawned
dispatch_mode_spawn(f) == "detached"

\* "call service": inline when the slot is empty, detached otherwise
dispatch_mode(f) == IF f = 0 THEN "inline" ELSE "detached"

\* mutant of inflight_started: a call is counted even when its first poll
\* completed it
inflight_started_always(n, mode, o) == n + 1

\* the inflight counter once a call was started: an inline call is counted
\* only if its first poll returned Pending, a detached call before it is spawned
inflight_started(n, mode, o) ==
    IF mode = "inline" /\ o # "pending" THEN n ELSE n + 1

\* the dispatch of one item while the dispatcher state is s and the shared
\* error cell holds se
Dispatch(item, s, se) ==
    LET i == Len(calls) + 1
        mode == dispatch_mode(fut)
    IN
    IF mode = "inline"
    THEN \E o \in FirstPoll :
            IF o = "pending"
            THEN /\ calls' = call_service(calls, item, mode)
                 /\ fut' = i
                 /\ inflight' = inflight_started(inflight, mode, o)
                 /\ sharedErr' = se
                 /\ written' = written
            ELSE /\ calls' = Completed(call_service(calls, item, mode), i, o, s)
                 /\ fut' = 0
                 /\ inflight' = inflight_started(inflight, mode, o)
                 /\ sharedErr' = store_error(se, write_result(o, i))
                 /\ written' = Append(written, i)
    ELSE /\ calls' = call_service(calls, item, mode)
         /\ fut' = fut
         /\ inflight' = inflight_started(inflight, mode, "pending")
         /\ sharedErr' = se
         /\ written' = written

InProcessing == pc = "loop" /\ st = "Processing"

\* poll_service returned Pending: the poll returns Pending
GatePending ==
    /\ InProcessing
    /\ \E r \in PollReady :
          LET p == poll_service(r) IN
          /\ p.ps = "Pending"
          /\ lastReg' = p.lreg
          /\ rdy' = r
    /\ pc' = "idle"
    /\ ret' = "Pending"
    /\ act' = "gate_pending"
    /\ UNCHANGED <<dispVars, kaVars, timerVars, clockVars, kaFlag, dspStopped,
                   ioErr, woken, callVars, endVars>>

\* poll_service returned ServiceError: `continue`
GateServiceError ==
    /\ InProcessing
    /\ \E r \in PollReady :
          LET p == poll_service(r) IN
          /\ p.ps = "ServiceError"
          /\ st' = p.st
          /\ sharedErr' = p.se
          /\ innerErr' = p.ie
          /\ timerReg' = p.reg
          /\ ioErr' = p.io
          /\ stopCause' = p.cause
          /\ rdy' = r
    /\ act' = "gate_service_error"
    /\ UNCHANGED <<pc, fut, inflight, kaVars, registered, clockVars, kaFlag,
                   dspStopped, lastReg, woken, callVars, shutdownIo, sdFlags,
                   result, ret>>

\* poll_service returned Item(KeepAliveTimeout | EncoderError | IoError)
GateItem ==
    /\ InProcessing
    /\ \E r \in PollReady :
          LET p == poll_service(r) IN
          /\ p.ps = "Item"
          /\ st' = p.st
          /\ innerErr' = p.ie
          /\ timerReg' = p.reg
          /\ ioErr' = p.io
          /\ stopCause' = p.cause
          /\ Dispatch(p.item, p.st, p.se)
          /\ rdy' = r
    /\ act' = "gate_item"
    /\ UNCHANGED <<pc, kaVars, registered, clockVars, kaFlag, dspStopped, lastReg,
                   woken, decoded, shutdownIo, sdFlags, result, ret>>

\* poll_service returned Ready
GateReady ==
    /\ InProcessing
    /\ \E r \in PollReady :
          /\ poll_service(r).ps = "Ready"
          /\ rdy' = r

\* is_read_ready() is false: dsp_register_task, return Pending
ReadNotReady ==
    /\ GateReady
    /\ lastReg' = "register_task"
    /\ pc' = "idle"
    /\ ret' = "Pending"
    /\ act' = "not_read_ready"
    /\ UNCHANGED <<dispVars, kaVars, timerVars, clockVars, kaFlag, dspStopped,
                   ioErr, woken, callVars, endVars>>

\* decode_item returned Ok(None): dsp_read_more_data, return Pending
DecodeNone ==
    /\ GateReady
    /\ lastReg' = "read_more_data"
    /\ pc' = "idle"
    /\ ret' = "Pending"
    /\ act' = "decode_none"
    /\ UNCHANGED <<dispVars, kaVars, timerVars, clockVars, kaFlag, dspStopped,
                   ioErr, woken, callVars, endVars>>

\* decode_item returned Ok(Some(frame)): update keep-alive, dispatch the frame
DecodeSome ==
    /\ GateReady
    /\ Len(decoded) < MaxFrames
    /\ LET f == Len(decoded) + 1
           k == update_keepalive(timerReg, ka_updated, ka_timeout, now)
       IN
          /\ decoded' = Append(decoded, f)
          /\ timerReg' = k.reg
          /\ registered' = (registered \/ k.upd # ka_updated)
          /\ ka_updated' = k.upd
          /\ Dispatch(Item(f), st, sharedErr)
    /\ act' = "decode_some"
    /\ UNCHANGED <<pc, st, innerErr, ka_timeout, clockVars, kaFlag, dspStopped,
                   ioErr, lastReg, woken, endVars, ret>>

\* decode_item returned Err: Stop, unregister keep-alive, dispatch DecoderError
DecodeErr ==
    /\ GateReady
    /\ st' = on_error_state
    /\ timerReg' = unregister_keepalive(timerReg, ka_updated, ka_timeout)
    /\ stopCause' = "decode"
    /\ Dispatch(ErrItem("DecoderError"), on_error_state, sharedErr)
    /\ act' = "decode_err"
    /\ UNCHANGED <<pc, innerErr, kaVars, registered, clockVars, kaFlag, dspStopped,
                   ioErr, lastReg, woken, decoded, shutdownIo, sdFlags, result, ret>>

InStop == pc = "loop" /\ st = "Stop"

\* Stop with inflight == 0: move to Shutdown, shutdown_io
StopDrained ==
    /\ InStop
    /\ inflight_drained(inflight)
    /\ rdy' = "ignored"
    /\ st' = "Shutdown"
    /\ shutdownIo' = shutdownIo + 1
    /\ act' = "stop_drained"
    /\ UNCHANGED <<pc, fut, inflight, sharedErr, innerErr, kaVars, timerVars,
                   clockVars, connVars, woken, callVars, sdFlags, result,
                   stopCause, ret>>

\* mutant of stop_wait_reg: Stop suspends without registering its waker
stop_wait_reg_none == "none"

\* what Stop registers before it suspends: state.dsp_register_task(cx.waker())
stop_wait_reg == "register_task"

\* Stop with calls in flight: dsp_register_task, return Pending
StopWait ==
    /\ InStop
    /\ ~inflight_drained(inflight)
    /\ rdy' = "ignored"
    /\ lastReg' = stop_wait_reg
    /\ pc' = "idle"
    /\ ret' = "Pending"
    /\ act' = "stop_wait"
    /\ UNCHANGED <<dispVars, kaVars, timerVars, clockVars, kaFlag, dspStopped,
                   ioErr, woken, callVars, endVars>>

InShutdown == pc = "loop" /\ st = "Shutdown"

\* Shutdown: poll_shutdown(cx, err.is_some()) is ready or not
ShutdownPass(ready) ==
    /\ InShutdown
    /\ sdFlags' = sdFlags \cup {shutdown_flag(innerErr)}
    /\ IF ready
       THEN /\ result' = final_result(innerErr)
            /\ innerErr' = NoErr
            /\ pc' = "done"
            /\ ret' = "Ready"
            /\ act' = "shutdown_ready"
       ELSE /\ result' = result
            /\ innerErr' = innerErr
            /\ pc' = "idle"
            /\ ret' = "Pending"
            /\ act' = "shutdown_pending"
    /\ rdy' = "-"
    /\ UNCHANGED <<st, fut, inflight, sharedErr, kaVars, timerVars, clockVars,
                   connVars, woken, callVars, shutdownIo, stopCause>>

-----------------------------------------------------------------------------
Next ==
    \/ \E t \in KaChoices : keepalive_timeout(t)
    \/ \E d \in TickSteps : Tick(d)
    \/ TimerFire
    \/ \E e \in BOOLEAN : ExternalStop(e)
    \/ \E i \in 1..(MaxFrames + 1), o \in Outcomes : DetachedComplete(i, o)
    \/ PollStart
    \/ GatePending
    \/ GateServiceError
    \/ GateItem
    \/ ReadNotReady
    \/ DecodeNone
    \/ DecodeSome
    \/ DecodeErr
    \/ StopDrained
    \/ StopWait
    \/ \E r \in BOOLEAN : ShutdownPass(r)

Spec == Init /\ [][Next]_vars

-----------------------------------------------------------------------------
(* The dispatcher as a task of the executor: it is polled when, and only     *)
(* when, one of the wakers it handed out has been woken.                     *)

\* the executor polls the woken task
WokenPoll == woken /\ PollStart

\* the poll that finds the pending inline call completed
PollInlineDone == WokenPoll /\ act' = "poll_inline_done"

WakeFrame ==
    /\ rdy' = "-"
    /\ UNCHANGED <<pc, dispVars, kaVars, timerVars, clockVars, connVars, callVars,
                   endVars, ret>>

\* the pending inline call, polled with the dispatcher's context, wakes it
InlineWake ==
    /\ pc = "idle" /\ ~woken
    /\ fut # 0
    /\ woken' = TRUE
    /\ act' = "inline_wake"
    /\ WakeFrame

\* the shutdown hook, polled with the dispatcher's context, wakes it
HookWake ==
    /\ pc = "idle" /\ ~woken
    /\ st = "Shutdown"
    /\ woken' = TRUE
    /\ act' = "hook_wake"
    /\ WakeFrame

\* handler readiness or the connection's read state wakes the waker that the
\* Processing state registered with it
SourceWake ==
    /\ pc = "idle" /\ ~woken
    /\ st = "Processing"
    /\ lastReg # "none"
    /\ woken' = TRUE
    /\ act' = "source_wake"
    /\ WakeFrame

\* one pass of the loop inside poll
LoopPass ==
    \/ GatePending
    \/ GateServiceError
    \/ GateItem
    \/ ReadNotReady
    \/ DecodeNone
    \/ DecodeSome
    \/ DecodeErr
    \/ StopDrained
    \/ StopWait
    \/ \E r \in BOOLEAN : ShutdownPass(r)

DetachedCompletes ==
    \E i \in 1..(MaxFrames + 1), o \in Outcomes : DetachedComplete(i, o)

LiveNext ==
    \/ \E t \in KaChoices : keepalive_timeout(t)
    \/ \E d \in TickSteps : Tick(d)
    \/ TimerFire
    \/ \E e \in BOOLEAN : ExternalStop(e)
    \/ DetachedCompletes
    \/ InlineWake
    \/ HookWake
    \/ SourceWake
    \/ WokenPoll
    \/ LoopPass

\* a woken task is polled and a poll runs to its return; every call in flight
\* completes; the shutdown hook becomes ready
Fairness ==
    /\ WF_vars(WokenPoll)
    /\ WF_vars(LoopPass)
    /\ WF_vars(DetachedCompletes)
    /\ WF_vars(InlineWake)
    /\ SF_vars(PollInlineDone)
    /\ WF_vars(HookWake)
    /\ SF_vars(ShutdownPass(TRUE))

LiveSpec == Init /\ [][LiveNext]_vars /\ Fairness

-----------------------------------------------------------------------------
(* Properties *)

CallIdx == 1..Len(calls)
IsItemCall(c) == c.item.t = "Item"
ItemCalls == SelectSeq(calls, IsItemCall)
ErrorItemIdx == {i \in CallIdx : calls[i].item.t \in ErrorItems}
DecodeActs == {"decode_none", "decode_some", "decode_err"}

\* C1: every frame decode_item yields is passed to Service::call exactly once
\* as DispatchItem::Item, and the calls are made in the order of decoding,
\* inline or detached.
C1_FramesDispatchedInOrder ==
    /\ Len(ItemCalls) = Len(decoded)
    /\ \A i \in 1..Len(decoded) : ItemCalls[i].item.f = decoded[i]

\* two frames decoded, the first call inline and still pending, the second detached
C1_Witness ==
    /\ Len(decoded) = 2
    /\ Len(calls) = 2
    /\ calls[1].mode = "inline"
    /\ calls[2].mode = "detached"
    /\ calls[2].item = Item(2)

\* an error-producing event has been recorded: a failed decode, a handler call
\* error, an encoder error, a readiness error, the keep-alive flag, an external
\* stop or io error
ErrorEvent ==
    \/ kaFlag
    \/ dspStopped
    \/ ioErr
    \/ stopCause \in {"decode", "readiness"}
    \/ \E i \in CallIdx : calls[i].out \in {"err", "encfail"}

\* C2: once an error-producing event has been recorded, no later step invokes
\* decode_item.
C2_NoDecodeAfterError == [][ErrorEvent => act' \notin DecodeActs]_vars

\* a detached call failed after both frames were dispatched, the keep-alive
\* flag and the stop flag are clear, and the dispatcher has gone to Stop
C2_Witness ==
    /\ \E i \in CallIdx : calls[i].mode = "detached" /\ calls[i].out = "err"
    /\ ~kaFlag
    /\ ~dspStopped
    /\ st = "Stop"
    /\ stopCause = "service"

\* C3: a decode happens only in a pass whose poll_ready returned Ready(Ok) with
\* no error or stop pending; a pass whose poll_ready returned Pending decodes
\* nothing, calls nothing, registers the waker through dsp_service_not_ready
\* and ends the poll with Pending.
C3_Backpressure ==
    [][ /\ act' \in DecodeActs =>
            /\ rdy' = "Ok"
            /\ st = "Processing"
            /\ sharedErr = NoErr
            /\ ~kaFlag
            /\ ~dspStopped
        /\ rdy' = "Pending" =>
            /\ decoded' = decoded
            /\ calls' = calls
            /\ lastReg' = "service_not_ready"
            /\ ret' = "Pending"
            /\ pc' = "idle"
      ]_vars

\* the handler is saturated after one frame: its call is pending, poll_ready
\* returned Pending, and a frame is still waiting to be decoded
C3_Witness ==
    /\ act = "gate_pending"
    /\ rdy = "Pending"
    /\ Len(decoded) = 1
    /\ fut # 0
    /\ lastReg = "service_not_ready"

\* the calls for decoded frames that completed with a handler error while the
\* dispatcher was in Processing
FailedInProcessing ==
    {i \in CallIdx : /\ IsItemCall(calls[i])
                     /\ calls[i].out = "err"
                     /\ calls[i].doneIn = "Processing"}

\* C4: when the call for a decoded frame completes with a handler error while
\* the dispatcher is in Processing, and poll_ready never fails, the dispatcher
\* ends with shutdown_io invoked and with Err carrying the handler error of
\* such a call.
C4_HandlerErrorIsResult ==
    (FailedInProcessing # {} /\ stopCause # "readiness" /\ result # NoResult)
    => /\ shutdownIo = 1
       /\ result.k = "Err"
       /\ result.e \in FailedInProcessing

\* C5: once any handler call has completed with an error, the final result is
\* Err, never Ok(()).
C5_HandlerErrorNeverOk ==
    (result # NoResult /\ \E i \in CallIdx : calls[i].out = "err")
    => result.k = "Err"

\* C6 (as amended): after a keep-alive expiry stopped the dispatcher, the
\* handler's last item is KeepAliveTimeout, Shutdown is entered with inflight
\* equal to zero and shutdown_io invoked once, and the final result is Ok(()).
C6_KeepAliveEndsOk ==
    stopCause = "keepalive" =>
        /\ st \in {"Stop", "Shutdown"}
        /\ Len(calls) > 0
        /\ calls[Len(calls)].item = ErrItem("KeepAliveTimeout")
        /\ st = "Shutdown" => (inflight = 0 /\ shutdownIo = 1)
        /\ result # NoResult => (st = "Shutdown" /\ result = OkResult)

\* the keep-alive expired with the handler idle: the only call ever made is
\* the one for KeepAliveTimeout, and the dispatcher has finished
C6_Witness ==
    /\ stopCause = "keepalive"
    /\ Len(calls) = 1
    /\ result = OkResult

\* C6 (as claimed): the keep-alive expiry with an idle handler ends in a final
\* result that is an error.
C6_Original ==
    (stopCause = "keepalive" /\ Len(calls) = 1 /\ result # NoResult)
    => result.k = "Err"

\* C7: a decode failure, an io error or a keep-alive expiry that stops the
\* dispatcher passes the matching error item to the handler; at most one error
\* item is ever passed and it is the last call; shutdown_io is not invoked
\* before that call has completed.
C7_ErrorItemOnceAndLast ==
    /\ Cardinality(ErrorItemIdx) <= 1
    /\ \A i \in ErrorItemIdx : i = Len(calls)
    /\ stopCause = "decode" =>
          \E i \in ErrorItemIdx : calls[i].item.t = "DecoderError"
    /\ stopCause = "io" =>
          \E i \in ErrorItemIdx : calls[i].item.t = "IoError"
    /\ stopCause = "keepalive" =>
          \E i \in ErrorItemIdx : calls[i].item.t = "KeepAliveTimeout"
    /\ shutdownIo > 0 => \A i \in ErrorItemIdx : calls[i].status = "done"

\* an io error stopped the dispatcher while the inline call was pending: the
\* IoError item ran detached and completed before shutdown_io
C7_Witness ==
    /\ stopCause = "io"
    /\ shutdownIo = 1
    /\ Len(calls) >= 2
    /\ calls[Len(calls)].item.t = "IoError"
    /\ calls[Len(calls)].mode = "detached"

\* C8 (as amended): while keep-alive is disabled the timer holds no deadline
\* for the connection, and if the keep-alive flag was not already raised it is
\* never raised: no KeepAlive error enters the shared cell and the handler
\* never receives KeepAliveTimeout.
C8_DisabledHoldsNoDeadline ==
    [][ /\ ka_timeout' = 0 => timerReg' = {}
        /\ (ka_timeout = 0 /\ ka_timeout' = 0 /\ ~kaFlag) =>
              /\ ~kaFlag'
              /\ sharedErr'.k # "KeepAlive"
              /\ \A i \in 1..Len(calls') : calls'[i].item.t # "KeepAliveTimeout"
      ]_vars

\* keep-alive disabled, time has passed, a frame was decoded after that and
\* the dispatcher ran to its end
C8_Witness ==
    /\ ka_timeout = 0
    /\ ~kaFlag
    /\ now > ka_updated
    /\ Len(decoded) >= 1
    /\ result # NoResult

\* C8 (as claimed): with keep-alive disabled, no deadline was ever registered
\* from construction onward.
C8_Original == ka_timeout = 0 => ~registered

CompletionActs == {"detached_complete", "poll_inline_done"}

\* C9: an error pending in the shared cell is not replaced by the error of a
\* call that completes before the dispatch loop has consumed it.
C9_FirstErrorKept ==
    [][(sharedErr # NoErr /\ act' \in CompletionActs) => sharedErr' = sharedErr]_vars

HandlerErrorCauses == {"service", "readiness"}

\* C10 (as amended): poll_shutdown is invoked before the final result, and its
\* flag is true exactly when the stop came from a handler call error taken by
\* poll_service or from a readiness error.
C10_ShutdownFlag ==
    /\ result # NoResult => sdFlags # {}
    /\ sdFlags \subseteq {stopCause \in HandlerErrorCauses}

\* a readiness error ended the dispatcher and the hook was told so
C10_Witness ==
    /\ stopCause = "readiness"
    /\ sdFlags = {TRUE}
    /\ result = ErrResult(ReadinessErr)

\* C10 (as claimed): the flag is true on every error path and false only when
\* the dispatcher stopped without any error.
C10_Original ==
    /\ result # NoResult => sdFlags # {}
    /\ sdFlags \subseteq {stopCause # "stop"}

PendingCalls == {i \in CallIdx : calls[i].status = "pending"}

\* C11: the step from Stop to Shutdown, and the shutdown_io made with it, is
\* taken only when inflight is 0 and no started handler call, inline or
\* detached, is still outstanding; a pass through Stop with inflight > 0
\* registers the waker and returns Pending, the state staying Stop.
C11_ShutdownOnlyWhenDrained ==
    [][ /\ (st' = "Shutdown" /\ st # "Shutdown") =>
              /\ st = "Stop"
              /\ inflight = 0
              /\ PendingCalls = {}
              /\ fut = 0
              /\ shutdownIo' = shutdownIo + 1
        /\ shutdownIo' # shutdownIo =>
              /\ st = "Stop" /\ st' = "Shutdown"
              /\ inflight = 0
              /\ PendingCalls = {}
        /\ (InStop /\ inflight > 0) =>
              /\ st' = "Stop"
              /\ lastReg' = "register_task"
              /\ ret' = "Pending"
              /\ pc' = "idle"
              /\ shutdownIo' = shutdownIo
      ]_vars

\* C11 witness: Shutdown was entered after a call completed while the
\* dispatcher was waiting in Stop
C11_Witness ==
    /\ act = "stop_drained"
    /\ st = "Shutdown"
    /\ shutdownIo = 1
    /\ \E i \in CallIdx : calls[i].doneIn = "Stop" /\ calls[i].mode = "detached"
    /\ \E i \in CallIdx : calls[i].doneIn = "Stop" /\ calls[i].mode = "inline"

DetachedPending == {i \in PendingCalls : calls[i].mode = "detached"}
InlinePending == {i \in PendingCalls : calls[i].mode = "inline"}

\* C12: inflight never goes below 0 and always equals the number of detached
\* calls not yet completed plus 1 if an inline call is pending after its first
\* poll (the call held in the fut slot); every completion handle_result
\* processes belongs to a call that was counted, and an inline call completed
\* by its first poll leaves the counter as it was.
C12_InflightExact ==
    /\ inflight >= 0
    /\ inflight = Cardinality(DetachedPending) + (IF fut # 0 THEN 1 ELSE 0)
    /\ InlinePending = (IF fut # 0 THEN {fut} ELSE {})
    /\ Len(written) = Cardinality(CallIdx \ PendingCalls)

DispatchActs == {"decode_some", "decode_err", "gate_item"}

\* C12 witness: a call was just completed by its first poll, uncounted, while
\* a detached call dispatched earlier is still counted
C12_Witness ==
    /\ act \in DispatchActs
    /\ calls # <<>>
    /\ calls[Len(calls)].status = "done"
    /\ calls[Len(calls)].mode = "inline"
    /\ inflight = 1
    /\ Cardinality(DetachedPending) = 1

\* C13: the dispatcher state only moves forward, Processing to Stop to
\* Shutdown, one stage at a time: no step returns to an earlier state and no
\* step takes Processing directly to Shutdown.
C13_StateForwardOnly ==
    [][ \/ st' = st
        \/ st = "Processing" /\ st' = "Stop"
        \/ st = "Stop" /\ st' = "Shutdown"
      ]_vars

\* C13 witness: a dispatcher that decoded a frame went through all three
\* states and produced its result
C13_Witness ==
    /\ st = "Shutdown"
    /\ result # NoResult
    /\ decoded # <<>>
    /\ stopCause # "none"
    /\ shutdownIo = 1

\* C14: at most one inline call is pending at any time; a dispatched call is
\* detached exactly when the inline slot holds a pending call at the moment of
\* dispatch; when the slot is empty the dispatched item is started inline and
\* polled at once, so that it is either completed or left in the slot.
C14_OneInlineCall ==
    [][ /\ Cardinality(InlinePending') <= 1
        /\ Len(calls') \in {Len(calls), Len(calls) + 1}
        /\ Len(calls') = Len(calls) + 1 =>
              LET c == calls'[Len(calls')] IN
              /\ c.mode = "detached" <=> (fut # 0 /\ fut \in InlinePending)
              /\ fut = 0 =>
                    /\ c.mode = "inline"
                    /\ \/ c.status = "done" /\ fut' = 0
                                            /\ written' = Append(written, Len(calls'))
                       \/ c.status = "pending" /\ fut' = Len(calls')
              /\ fut # 0 => c.status = "pending" /\ fut' = fut
      ]_vars

\* C14 witness: a call was spawned while the inline slot held a pending call
C14_Witness ==
    /\ act = "decode_some"
    /\ Len(calls) = 2
    /\ calls[1].mode = "inline" /\ calls[1].status = "pending" /\ fut = 1
    /\ calls[2].mode = "detached"

DoneCalls == CallIdx \ PendingCalls

\* the calls a step completes
CompletedBy(cs, cs2) ==
    {i \in 1..Len(cs2) : cs2[i].status = "done"
                         /\ (i > Len(cs) \/ cs[i].status = "pending")}

\* C15: the outcome of every call that completes is handed to write_result
\* once, in the step that completes it, so the written sequence lists the
\* completed calls in completion order, each exactly once; a detached
\* completion wakes the dispatch loop, an inline completion never does.
C15_WrittenAtCompletion ==
    [][ /\ LET done == CompletedBy(calls, calls') IN
           /\ Cardinality(done) <= 1
           /\ \A i \in done : written' = Append(written, i)
           /\ done = {} => written' = written
        /\ \A i \in 1..Len(calls') :
              Cardinality({k \in 1..Len(written') : written'[k] = i})
                 = (IF calls'[i].status = "done" THEN 1 ELSE 0)
        /\ act' = "detached_complete" =>
              /\ woken'
              /\ \E i \in CompletedBy(calls, calls') : calls[i].mode = "detached"
        /\ (CompletedBy(calls, calls') # {} /\ act' # "detached_complete") =>
              /\ woken' => woken
              /\ \A i \in CompletedBy(calls, calls') : calls'[i].mode = "inline"
      ]_vars

\* C15 witness: the second call dispatched completed, and was written, before
\* the first; its completion woke the dispatch loop
C15_Witness ==
    /\ Len(written) >= 2
    /\ written[1] > written[2]
    /\ calls[written[1]].mode = "detached"
    /\ calls[written[2]].mode = "inline"

\* C16: when every call in flight completes, every wake-up is followed by a
\* poll and the shutdown hook becomes ready, a dispatcher that entered Stop
\* reaches Shutdown and yields its final result; it is never left suspended
\* in Stop with inflight 0 and no wake-up pending.
C16_StopReachesResult ==
    /\ [](~(st = "Stop" /\ pc = "idle" /\ inflight = 0 /\ ~woken))
    /\ (st = "Stop") ~> (st = "Shutdown" /\ result # NoResult)

\* C16 witness: the dispatcher is suspended in Stop, not woken, with a
\* detached and an inline call in flight
C16_Witness ==
    /\ st = "Stop"
    /\ pc = "idle"
    /\ ~woken
    /\ inflight = 2
    /\ fut # 0

\* C17: a pass of the Processing state whose poll_ready returns an error moves
\* the dispatcher to Stop in that pass, decodes no frame and starts no handler
\* call, unregisters the keep-alive deadline and stashes the readiness error;
\* the final result of such a dispatcher is Err carrying that error.
C17_ReadinessErrorStops ==
    [][ /\ (InProcessing /\ rdy' = "Err") =>
              /\ st' = "Stop"
              /\ pc' = "loop"
              /\ decoded' = decoded
              /\ calls' = calls
              /\ written' = written
              /\ timerReg' = timerReg \ {ka_updated + ka_timeout}
              /\ ka_enabled(ka_timeout) => timerReg' = {}
              /\ innerErr' = ReadinessErr
              /\ stopCause' = "readiness"
        /\ stopCause = "readiness" =>
              /\ decoded' = decoded
              /\ Len(calls') = Len(calls)
        /\ (stopCause' = "readiness" /\ result' # NoResult) =>
              result' = ErrResult(ReadinessErr)
      ]_vars

\* C17 witness: poll_ready failed after a frame had been dispatched, and the
\* dispatcher ended with the readiness error
C17_Witness ==
    /\ stopCause = "readiness"
    /\ result = ErrResult(ReadinessErr)
    /\ Len(decoded) = 1
    /\ Len(calls) = 1
    /\ registered

\* C18: in every state where st is Stop or Shutdown the timer holds no
\* keep-alive deadline of the connection: the step into Stop unregisters the
\* deadline then registered, ka_updated + ka_timeout, and nothing is
\* registered afterwards.
C18_NoDeadlineAfterStop ==
    [][ /\ st' \in {"Stop", "Shutdown"} => timerReg' = {}
        /\ (st = "Processing" /\ st' = "Stop") =>
              /\ timerReg \subseteq {ka_updated + ka_timeout}
              /\ timerReg' = timerReg \ {ka_updated + ka_timeout}
        /\ st \in {"Stop", "Shutdown"} =>
              /\ timerReg' = timerReg
              /\ act' # "timer_fire"
      ]_vars

\* C18 witness: a dispatcher whose keep-alive deadline was re-registered by a
\* decode has stopped, and the timer holds nothing
C18_Witness ==
    /\ st = "Stop"
    /\ ka_enabled(ka_timeout)
    /\ ka_updated > 0
    /\ ~kaFlag
    /\ timerReg = {}

\* the bookkeeping C19 describes, as a predicate of one state
OneDeadline(reg, s, ka, upd, flag) ==
    /\ Cardinality(reg) <= 1
    /\ (ka_enabled(ka) /\ s = "Processing") =>
          /\ reg \subseteq {upd + ka}
          /\ ~flag => reg = {upd + ka}

\* C19: the timer holds at most one keep-alive deadline of the connection;
\* while keep-alive is enabled and st is Processing that deadline is
\* ka_updated + ka_timeout, and it is in place until the timer has fired it.
\* This holds after construction, after every keepalive_timeout call and
\* after every decoded frame, which replaces the deadline exactly when the
\* current time differs from ka_updated.
C19_SingleDeadline ==
    /\ OneDeadline(timerReg, st, ka_timeout, ka_updated, kaFlag)
    /\ [][ /\ OneDeadline(timerReg', st', ka_timeout', ka_updated', kaFlag')
           /\ (act' = "keepalive_timeout" /\ ka_enabled(ka_timeout')) =>
                 timerReg' = {ka_updated' + ka_timeout'}
           /\ act' = "decode_some" =>
                 IF ka_enabled(ka_timeout) /\ now # ka_updated
                 THEN /\ ka_updated' = now
                      /\ timerReg' = {now + ka_timeout}
                      /\ timerReg = {ka_updated + ka_timeout}
                 ELSE /\ ka_updated' = ka_updated
                      /\ timerReg' = timerReg
         ]_vars

\* C19 witness: a decode at a later time has replaced the deadline set by
\* keepalive_timeout, and the timer holds the new one only
C19_Witness ==
    /\ act = "decode_some"
    /\ st = "Processing"
    /\ ka_timeout # DefaultKa
    /\ ka_updated = now /\ now > 0
    /\ timerReg = {ka_updated + ka_timeout}

PollActs == {"poll", "poll_inline_pending", "poll_inline_done"}

\* C20: every poll begins by polling the pending inline call, if there is
\* one, before the state machine runs; if the call completed, its outcome is
\* written through handle_result (inflight decremented, no wake-up) and the
\* slot is cleared in that step, so the frame decodes and the Stop test of
\* inflight of the same poll come after the write.
C20_InlineDrainedFirst ==
    [][ /\ (Outside /\ pc' = "loop") =>
              /\ act' \in PollActs
              /\ fut = 0 <=> act' = "poll"
              /\ st' = st
              /\ decoded' = decoded
              /\ Len(calls') = Len(calls)
              /\ shutdownIo' = shutdownIo
        /\ act' = "poll_inline_done" =>
              /\ fut # 0 /\ calls[fut].status = "pending"
              /\ calls'[fut].status = "done"
              /\ written' = Append(written, fut)
              /\ inflight' = inflight - 1
              /\ fut' = 0
              /\ ~woken'
        /\ act' \in PollActs \ {"poll_inline_done"} =>
              /\ calls' = calls /\ written' = written
              /\ inflight' = inflight /\ fut' = fut
        /\ (act' \in DecodeActs \cup {"stop_drained", "stop_wait"}) =>
              /\ pc = "loop"
              /\ \A i \in CallIdx : calls'[i] = calls[i]
              /\ fut # 0 => fut' = fut
      ]_vars

\* C20 witness: the inline call of a frame completed while the dispatcher was
\* in Stop; the poll that found it completed wrote its outcome and then saw
\* inflight 0
C20_Witness ==
    /\ act = "stop_drained"
    /\ written # <<>>
    /\ LET i == written[Len(written)] IN
          /\ calls[i].mode = "inline"
          /\ IsItemCall(calls[i])
          /\ calls[i].doneIn = "Stop"

IoErrorCalls(cs) == {i \in 1..Len(cs) : cs[i].item.t = "IoError"}
SharedErrorCauses == {"keepalive", "encoder", "service"}

\* C21: in a pass of the Processing state whose poll_ready is Ready(Ok), a
\* pending shared error (handler, encoder or keep-alive) is handled before a
\* stop request of the connection, and a stop request before any decode.  A
\* stop request with a recorded io error gives the handler exactly one
\* IoError item; one without dispatches nothing and, when no handler call
\* failed, the final result is Ok(()).
C21_GatePriority ==
    [][ /\ (InProcessing /\ rdy' = "Ok") =>
              LET se1 == check_keepalive(sharedErr, kaFlag) IN
              /\ se1 # NoErr =>
                    /\ st' = "Stop"
                    /\ stopCause' \in SharedErrorCauses
                    /\ stopCause' = "keepalive" <=> se1 = KeepAliveErr
                    /\ decoded' = decoded
                    /\ dspStopped' = dspStopped /\ ioErr' = ioErr
                    /\ IoErrorCalls(calls') = {}
              /\ (se1 = NoErr /\ dspStopped) =>
                    /\ st' = "Stop"
                    /\ stopCause' = (IF ioErr THEN "io" ELSE "stop")
                    /\ decoded' = decoded
                    /\ timerReg' = timerReg \ {ka_updated + ka_timeout}
                    /\ IF ioErr
                       THEN /\ Len(calls') = Len(calls) + 1
                            /\ calls'[Len(calls')].item = ErrItem("IoError")
                            /\ ~ioErr'
                       ELSE calls' = calls
              /\ act' \in DecodeActs => se1 = NoErr /\ ~dspStopped
        /\ Cardinality(IoErrorCalls(calls')) = (IF stopCause' = "io" THEN 1 ELSE 0)
        /\ stopCause = "stop" => Len(calls') = Len(calls)
        /\ (stopCause' = "stop" /\ result' # NoResult
              /\ \A i \in 1..Len(calls') : calls'[i].out # "err") =>
              result' = OkResult
      ]_vars

\* C21 witness: the gate found a shared error and a stop request with an io
\* error at once, and took the shared error
C21_Witness ==
    /\ act \in {"gate_item", "gate_service_error"}
    /\ rdy = "Ok"
    /\ stopCause \in SharedErrorCauses
    /\ dspStopped /\ ioErr
    /\ st = "Stop"
    /\ decoded # <<>>

=============================================================================
